---- MODULE Spec2Model ----
(***************************************************************************)
(* Model of node-client/RChain.py: the command dispatcher `main` and the   *)
(* tornado request handler `RNodeUI` (initialize / get / post).            *)
(*                                                                         *)
(* Text is a sequence of one-character strings; the empty text is << >>.   *)
(* An optional value is a sequence of length 0 (absent) or 1 (present).    *)
(***************************************************************************)
EXTENDS Naturals, Sequences, FiniteSets

\* argv, pc, output, stdout, rpcCalls: main's arguments, position, local
\*   `output`, the lines printed and the stub calls it issued.
\* handlers: the RNodeUI object of the request in each slot, with what it
\*   has written and the stub calls it issued.
\* prev, posted: history of the requests served one at a time (see Serve).
VARIABLES argv, pc, output, stdout, rpcCalls, handlers, prev, posted

vars == <<argv, pc, output, stdout, rpcCalls, handlers, prev, posted>>
mainVars == <<argv, pc, output, stdout, rpcCalls>>
ghostVars == <<prev, posted>>

\* ------------------------------------------------------------------ bounds
MaxArgs == 3
MaxOut == 4
MaxPeers == 1

Tokens == {"-w", "-c", "a", "b"}
OutChars == {" ", "|"}
\* Values of the form field rho1 as posted, before the handler reads them.
Codes == {<<"\f", "|", " ">>, << >>}
Peers == {"p"}
Slots == {1, 2}

SeqsUpTo(S, n) == UNION {[1..k -> S] : k \in 0..n}

Argvs == SeqsUpTo(Tokens, MaxArgs)
Outs == SeqsUpTo(OutChars, MaxOut)
PeerLists == SeqsUpTo(Peers, MaxPeers)

\* ------------------------------------------------------ main (lines 33-55)
web_port == "8888"

Contains(seq, x) == \E i \in 1..Len(seq) : seq[i] = x

\* Faulty variant: the "-c" test placed before the "-w" test.
ModeInlineFirst(a) ==
  IF Contains(a, "-c") THEN "inline"
  ELSE IF Contains(a, "-w") THEN "ui"
  ELSE "file"

\* The if / elif / else chain of main.
Mode(a) ==
  IF Contains(a, "-w") THEN "ui"
  ELSE IF Contains(a, "-c") THEN "inline"
  ELSE "file"

\* Faulty variant: the element that follows the first "-c" (the last one when "-c"
\* closes the sequence).
LineAfterFlag(a) ==
  LET i == CHOOSE k \in 1..Len(a) : a[k] = "-c" /\ \A j \in 1..(k - 1) : a[j] # "-c"
  IN IF i < Len(a) THEN a[i + 1] ELSE a[Len(a)]

\* line = argv[-1]
Line(a) == a[Len(a)]

\* Faulty variant: index 0, the program name.
FileNameFirst(a) == a[1]

\* fileName = argv[1] (Python index 1 is the second element); raises
\* IndexError when the sequence has fewer than two elements.
HasFileName(a) == Len(a) >= 2
FileName(a) == a[2]

\* "rnode web UI at %s" % url, with url = "http://0.0.0.0:%s" % port
UrlLine(p) == <<"rnode web UI at ", "http://0.0.0.0:", p>>

InitMain ==
  /\ argv \in Argvs
  /\ pc = "start"
  /\ output = << >>
  /\ stdout = << >>
  /\ rpcCalls = << >>

NoHandler ==
  [pc |-> "free", method |-> "", arg |-> << >>, rholang_code |-> << >>,
   rspace_contents |-> << >>, line |-> << >>, output |-> << >>,
   rpcs |-> << >>, written |-> << >>, error |-> "", raced |-> FALSE]

Init ==
  /\ InitMain
  /\ handlers = [s \in Slots |-> NoHandler]
  /\ prev = << >>
  /\ posted = FALSE

\* '-w' in argv: make_app, print the url, IOLoop.current().start() (blocks).
MainUI ==
  /\ pc = "start"
  /\ Mode(argv) = "ui"
  /\ stdout' = Append(stdout, UrlLine(web_port))
  /\ pc' = "serving"
  /\ UNCHANGED <<argv, output, rpcCalls, handlers, prev, posted>>

\* '-c' in argv: replCh.Run(CmdRequest(line=argv[-1])) is issued.
MainInline ==
  /\ pc = "start"
  /\ Mode(argv) = "inline"
  /\ rpcCalls' = Append(rpcCalls, [op |-> "Run", arg |-> Line(argv)])
  /\ pc' = "rpc"
  /\ UNCHANGED <<argv, output, stdout, handlers, prev, posted>>

\* else: replCh.Eval(EvalRequest(fileName=argv[1])) is issued, or argv[1]
\* raises IndexError.
MainFile ==
  /\ pc = "start"
  /\ Mode(argv) = "file"
  /\ IF HasFileName(argv)
       THEN /\ rpcCalls' = Append(rpcCalls, [op |-> "Eval", arg |-> FileName(argv)])
            /\ pc' = "rpc"
       ELSE /\ rpcCalls' = rpcCalls
            /\ pc' = "IndexError"
  /\ UNCHANGED <<argv, output, stdout, handlers, prev, posted>>

\* The stub call returns a response: output is bound and printed (line 55).
RpcOk ==
  /\ pc = "rpc"
  /\ \E o \in Outs :
       /\ output' = <<o>>
       /\ stdout' = Append(stdout, o)
  /\ pc' = "done"
  /\ UNCHANGED <<argv, rpcCalls, handlers, prev, posted>>

\* Faulty variant: the failure is caught and an empty line is printed.
RpcFailPrints ==
  /\ pc = "rpc"
  /\ pc' = "RpcError"
  /\ stdout' = Append(stdout, << >>)
  /\ UNCHANGED <<argv, output, rpcCalls, handlers, prev, posted>>

\* The stub call raises: the exception leaves main, line 55 is not reached.
RpcFail ==
  /\ pc = "rpc"
  /\ pc' = "RpcError"
  /\ UNCHANGED <<argv, output, stdout, rpcCalls, handlers, prev, posted>>

NextMain == MainUI \/ MainInline \/ MainFile \/ RpcOk \/ RpcFail

SpecMain == Init /\ [][NextMain]_vars

\* --------------------------------------------------- RNodeUI (lines 60-129)
\* markup.split('<!-- PART -->'): the four pieces around the three parts.
mtop1 == <<"<!doctype html>...<h2>Peers</h2><ul>">>
mform2 == <<"</ul>...<form action='' method='post'><textarea name='rho1'>">>
mf3 == <<"</textarea>...</form><pre id='store'>">>
m4 == <<"</pre></body></html>">>

\* "<li>%s</li>" % peer
PeerItem(peer) == <<"<li>", peer, "</li>">>

\* str.replace(' | ', ' |\n'): left to right, non-overlapping occurrences.
RECURSIVE Replace(_)
Replace(t) ==
  IF Len(t) < 3 THEN t
  ELSE IF SubSeq(t, 1, 3) = <<" ", "|", " ">>
    THEN <<" ", "|", "\n">> \o Replace(SubSeq(t, 4, Len(t)))
    ELSE <<t[1]>> \o Replace(Tail(t))

\* A handler object is built for every request the application routes to
\* the class (make_app, line 101), and initialize runs on it.  raced is
\* history (see Race), not a field of the object.
NewHandler(m, a) ==
  [pc |-> "ready", method |-> m, arg |-> a, rholang_code |-> << >>,
   rspace_contents |-> << >>, line |-> << >>, output |-> << >>,
   rpcs |-> << >>, written |-> << >>, error |-> "", raced |-> FALSE]

\* get, up to the ListPeers call: the first piece is written, then the stub
\* is called.
GetStart(h) ==
  [h EXCEPT !.written = Append(h.written, mtop1),
            !.rpcs = Append(h.rpcs, "ListPeers"),
            !.pc = "peers"]

\* get, after ListPeers has returned the peers.
GetFinish(h, peers) ==
  [h EXCEPT !.written = h.written
                          \o [i \in 1..Len(peers) |-> PeerItem(peers[i])]
                          \o <<mform2, h.rholang_code, mf3, h.rspace_contents, m4>>,
            !.pc = "done"]

\* get_body_argument('rho1') returns the last value of the field with its
\* control characters turned into spaces and then its leading and trailing
\* whitespace removed (tornado's default strip=True, str.strip()).
\* A character that has no escape in a TLA+ string is written as its Python
\* escape, e.g. "\\x0b" for the vertical tab.

\* tornado's _remove_control_chars_regex, [\x00-\x08\x0e-\x1f].
ControlChars ==
  {"\\x00", "\\x01", "\\x02", "\\x03", "\\x04", "\\x05", "\\x06", "\\x07",
   "\\x08", "\\x0e", "\\x0f", "\\x10", "\\x11", "\\x12", "\\x13", "\\x14",
   "\\x15", "\\x16", "\\x17", "\\x18", "\\x19", "\\x1a", "\\x1b", "\\x1c",
   "\\x1d", "\\x1e", "\\x1f"}

RemoveControlChars(t) ==
  [i \in 1..Len(t) |-> IF t[i] \in ControlChars THEN " " ELSE t[i]]

\* The characters str.strip() removes (those for which str.isspace holds).
Whitespace ==
  {" ", "\t", "\n", "\r", "\f", "\\x0b", "\\x1c", "\\x1d", "\\x1e", "\\x1f",
   "\\x85", "\\xa0", "\\u1680", "\\u2000", "\\u2001", "\\u2002", "\\u2003",
   "\\u2004", "\\u2005", "\\u2006", "\\u2007", "\\u2008", "\\u2009",
   "\\u200a", "\\u2028", "\\u2029", "\\u202f", "\\u205f", "\\u3000"}

IsSpace(c) == c \in Whitespace

RECURSIVE LStrip(_)
LStrip(t) == IF t # << >> /\ IsSpace(t[1]) THEN LStrip(Tail(t)) ELSE t

RECURSIVE RStrip(_)
RStrip(t) ==
  IF t # << >> /\ IsSpace(t[Len(t)]) THEN RStrip(SubSeq(t, 1, Len(t) - 1)) ELSE t

Strip(t) == RStrip(LStrip(t))

ReadField(f) == Strip(RemoveControlChars(f))

\* tornado's default error page (write_error without serve_traceback).
ErrorPage(code, message) ==
  <<"<html><title>", code, ": ", message, "</title><body>",
    code, ": ", message, "</body></html>">>

\* Faulty variant: the code is stored only once Run has returned.
PostStartStoresLate(h) ==
  IF h.arg = << >>
    THEN [h EXCEPT !.pc = "error", !.error = "MissingArgumentError",
                   !.written = <<ErrorPage("400", "Bad Request")>>]
    ELSE [h EXCEPT !.line = <<ReadField(h.arg[1])>>,
                   !.rpcs = Append(h.rpcs, "Run"),
                   !.pc = "run"]

\* Faulty variant: an absent field reads as the empty string.
PostStartDefault(h) ==
  LET line == IF h.arg = << >> THEN << >> ELSE ReadField(h.arg[1])
  IN [h EXCEPT !.line = <<line>>,
               !.rholang_code = line,
               !.rpcs = Append(h.rpcs, "Run"),
               !.pc = "run"]

\* post, up to the Run call: get_body_argument('rho1') raises when the field
\* is absent (a field that is present and empty is read as '') and tornado
\* finishes the response with its 400 page; otherwise the line read is
\* stored and sent to Run.
PostStart(h) ==
  IF h.arg = << >>
    THEN [h EXCEPT !.pc = "error", !.error = "MissingArgumentError",
                   !.written = <<ErrorPage("400", "Bad Request")>>]
    ELSE LET line == ReadField(h.arg[1])
         IN [h EXCEPT !.line = <<line>>,
                      !.rholang_code = line,
                      !.rpcs = Append(h.rpcs, "Run"),
                      !.pc = "run"]

\* post, after Run has returned o: the transformed output is stored and
\* self.get() is entered.
PostRun(h, o) ==
  GetStart([h EXCEPT !.output = <<o>>, !.rspace_contents = Replace(o)])

\* Faulty variant: the error page is appended to what get has written (the
\* buffer is not cleared).
RaiseKeepsBuffer(h) ==
  [h EXCEPT !.pc = "error", !.error = "RpcError",
            !.written = Append(h.written, ErrorPage("500", "Internal Server Error"))]

\* A stub call raises inside get or post: the exception leaves the method
\* and, in the same turn, tornado's send_error clears what the handler has
\* written and finishes the response with its 500 page.
Raise(h) ==
  [h EXCEPT !.pc = "error", !.error = "RpcError",
            !.written = <<ErrorPage("500", "Internal Server Error")>>]

Requests ==
  {[method |-> "GET", arg |-> << >>]}
    \cup {[method |-> "POST", arg |-> a] : a \in {<<c>> : c \in Codes} \cup {<< >>}}

InFlight(h) == h.pc \in {"ready", "run", "peers"}

\* Handlers of other requests that are waiting on a stub call while slot s
\* writes its fields.
Race(s, hs) ==
  [t \in Slots |->
     IF t # s /\ hs[t].pc \in {"run", "peers"} /\ hs[t].method = "POST"
       THEN [hs[t] EXCEPT !.raced = TRUE] ELSE hs[t]]

Initialize(s, r) ==
  /\ ~InFlight(handlers[s])
  /\ handlers' = [handlers EXCEPT ![s] = NewHandler(r.method, r.arg)]
  /\ UNCHANGED mainVars

Get(s) ==
  /\ handlers[s].pc = "ready"
  /\ handlers[s].method = "GET"
  /\ handlers' = [handlers EXCEPT ![s] = GetStart(handlers[s])]
  /\ UNCHANGED <<mainVars, ghostVars>>

Post(s) ==
  /\ handlers[s].pc = "ready"
  /\ handlers[s].method = "POST"
  /\ handlers' = Race(s, [handlers EXCEPT ![s] = PostStart(handlers[s])])
  /\ UNCHANGED <<mainVars, ghostVars>>

RunOk(s) ==
  /\ handlers[s].pc = "run"
  /\ \E o \in Outs :
       handlers' = Race(s, [handlers EXCEPT ![s] = PostRun(handlers[s], o)])
  /\ UNCHANGED <<mainVars, ghostVars>>

RunFail(s) ==
  /\ handlers[s].pc = "run"
  /\ handlers' = [handlers EXCEPT ![s] = Raise(handlers[s])]
  /\ UNCHANGED <<mainVars, ghostVars>>

\* Faulty variant: the page is rendered from strings shared by all handlers, which
\* hold what the latest post stored.
ListPeersOkShared(s) ==
  /\ handlers[s].pc = "peers"
  /\ \E peers \in PeerLists :
       LET others == {t \in Slots : t # s /\ handlers[t].output # << >>}
           src == IF others = {} THEN s ELSE CHOOSE t \in others : TRUE
           h == [handlers[s] EXCEPT
                   !.rholang_code = handlers[src].rholang_code,
                   !.rspace_contents = handlers[src].rspace_contents]
       IN handlers' = [handlers EXCEPT ![s] = GetFinish(h, peers)]
  /\ UNCHANGED <<mainVars, ghostVars>>

ListPeersOk(s) ==
  /\ handlers[s].pc = "peers"
  /\ \E peers \in PeerLists :
       handlers' = [handlers EXCEPT ![s] = GetFinish(handlers[s], peers)]
  /\ UNCHANGED <<mainVars, ghostVars>>

ListPeersFail(s) ==
  /\ handlers[s].pc = "peers"
  /\ handlers' = [handlers EXCEPT ![s] = Raise(handlers[s])]
  /\ UNCHANGED <<mainVars, ghostVars>>

\* The state main leaves behind in UI mode: the url line is printed and the
\* loop is running.
InitUI ==
  /\ argv = <<"a", "-w">>
  /\ pc = "serving"
  /\ output = << >>
  /\ stdout = <<UrlLine(web_port)>>
  /\ rpcCalls = << >>
  /\ handlers = [s \in Slots |-> NoHandler]
  /\ prev = << >>
  /\ posted = FALSE

\* ---- one request at a time (the stubs block the loop)
Succeeded(h) == h.pc = "done" /\ h.method = "POST"

\* A post that got as far as storing the line it read.
Stored(h) == h.method = "POST" /\ h.line # << >>

\* History of the requests served so far: prev is the last successful POST
\* (the line it read and the output Run returned) when no other POST has
\* been handled since; posted records that some POST has succeeded and that
\* the latest line stored by a POST was not empty.
Serve ==
  \E r \in Requests :
    /\ Initialize(1, r)
    /\ prev' = IF r.method # "GET" THEN << >>
               ELSE IF Succeeded(handlers[1])
                 THEN <<[code |-> handlers[1].line[1], output |-> handlers[1].output[1]]>>
               ELSE IF handlers[1].method = "GET" THEN prev
               ELSE << >>
    /\ posted' = IF ~Stored(handlers[1]) THEN posted
                 ELSE IF handlers[1].line[1] = << >> THEN FALSE
                 ELSE (posted \/ Succeeded(handlers[1]))

SerialGet == Get(1)
SerialPost == Post(1)
SerialRunOk == RunOk(1)
SerialRunFail == RunFail(1)
SerialListPeersOk == ListPeersOk(1)
SerialListPeersFail == ListPeersFail(1)

Next ==
  \/ Serve
  \/ SerialGet
  \/ SerialPost
  \/ SerialRunOk
  \/ SerialRunFail
  \/ SerialListPeersOk
  \/ SerialListPeersFail

Spec == InitUI /\ [][Next]_vars

\* ---- requests whose stub calls yield to the loop
Accept == \E s \in Slots, r \in Requests : Initialize(s, r) /\ UNCHANGED ghostVars
AsyncGet == \E s \in Slots : Get(s)
AsyncPost == \E s \in Slots : Post(s)
AsyncRunOk == \E s \in Slots : RunOk(s)
AsyncRunFail == \E s \in Slots : RunFail(s)
AsyncListPeersOk == \E s \in Slots : ListPeersOk(s)
AsyncListPeersFail == \E s \in Slots : ListPeersFail(s)

NextAsync ==
  \/ Accept
  \/ AsyncGet
  \/ AsyncPost
  \/ AsyncRunOk
  \/ AsyncRunFail
  \/ AsyncListPeersOk
  \/ AsyncListPeersFail

SpecAsync == InitUI /\ [][NextAsync]_vars

\* ------------------------------------------------------------- properties
H == handlers[1]

\* The rendered page, as the sequence of writes of a completed get: the
\* text-area part lies between mform2 and mf3, the store part between mf3
\* and m4.
TextAreaPart(w) == w[Len(w) - 3]
StorePart(w) == w[Len(w) - 1]

\* t is o with every " | " replaced by " |\n": t differs from o only where
\* the closing space of an occurrence became a newline, and no occurrence
\* is left in t.
IsReplaced(o, t) ==
  /\ Len(t) = Len(o)
  /\ \A j \in 1..Len(o) :
       \/ t[j] = o[j]
       \/ /\ j >= 3
          /\ o[j] = " " /\ t[j] = "\n"
          /\ t[j - 2] = " " /\ t[j - 1] = "|"
  /\ \A i \in 1..Len(t) :
       i + 2 <= Len(t) => ~(t[i] = " " /\ t[i + 1] = "|" /\ t[i + 2] = " ")

Idle(h) == h.rholang_code = << >> /\ h.rspace_contents = << >>

\* No piece of the page template and no peer item is in the response.
NothingRendered(h) ==
  \A i \in 1..Len(h.written) :
    /\ h.written[i] \notin {mtop1, mform2, mf3, m4}
    /\ h.written[i] \notin {PeerItem(p) : p \in Peers}

\* t is the field f as post reads it: f without the whitespace at its two
\* ends (the fields posted here hold no control character).
IsStripped(f, t) ==
  /\ Len(t) <= Len(f)
  /\ t # << >> => (~IsSpace(t[1]) /\ ~IsSpace(t[Len(t)]))
  /\ \E i \in 0..(Len(f) - Len(t)) :
       /\ \A j \in 1..Len(t) : t[j] = f[i + j]
       /\ \A j \in 1..i : IsSpace(f[j])
       /\ \A j \in (i + Len(t) + 1)..Len(f) : IsSpace(f[j])

\* C3: "-w" anywhere selects UI mode and no stub call is issued; otherwise
\* "-c" selects inline-eval (Run, never Eval); otherwise file-eval (Eval,
\* never Run); one mode per invocation.
Thm_C3 ==
  /\ Len(rpcCalls) <= 1
  /\ Contains(argv, "-w") =>
       /\ pc \in {"start", "serving"}
       /\ rpcCalls = << >>
  /\ (~Contains(argv, "-w") /\ Contains(argv, "-c")) =>
       /\ pc # "serving"
       /\ \A i \in 1..Len(rpcCalls) : rpcCalls[i].op = "Run"
       /\ pc # "start" => Len(rpcCalls) = 1
  /\ (~Contains(argv, "-w") /\ ~Contains(argv, "-c")) =>
       /\ pc # "serving"
       /\ \A i \in 1..Len(rpcCalls) : rpcCalls[i].op = "Eval"

Wit_C3 ==
  /\ Contains(argv, "-w") /\ Contains(argv, "-c")
  /\ argv[1] # "-w"
  /\ pc = "serving"

\* C4: in file-eval mode the element at index 1 is the fileName of a single
\* Eval request; without it the run ends in an error with no stub call and
\* nothing printed.
Thm_C4 ==
  (~Contains(argv, "-w") /\ ~Contains(argv, "-c") /\ pc # "start") =>
    IF Len(argv) >= 2
      THEN rpcCalls = <<[op |-> "Eval", arg |-> argv[2]]>>
      ELSE /\ pc = "IndexError"
           /\ rpcCalls = << >>
           /\ stdout = << >>
           /\ \A s \in Slots : handlers[s] = NoHandler

Wit_C4 ==
  /\ ~Contains(argv, "-w") /\ ~Contains(argv, "-c")
  /\ Len(argv) = 1
  /\ pc = "IndexError"

\* C5: in inline-eval mode the line sent to Run is the last element of the
\* argument sequence, wherever "-c" stands.
Thm_C5 ==
  (~Contains(argv, "-w") /\ Contains(argv, "-c") /\ pc # "start") =>
    rpcCalls = <<[op |-> "Run", arg |-> argv[Len(argv)]]>>

Wit_C5 ==
  /\ ~Contains(argv, "-w")
  /\ Len(argv) = 3 /\ argv[1] = "-c" /\ argv[2] # argv[3]
  /\ Len(rpcCalls) = 1

\* C6: in the CLI modes a failed stub call ends the run in an error with
\* nothing printed; a line is printed only once the call has returned, and
\* then exactly one line, the response's output.
Thm_C6 ==
  ~Contains(argv, "-w") =>
    /\ pc \in {"start", "rpc", "RpcError", "IndexError"} => stdout = << >>
    /\ pc = "RpcError" => Len(rpcCalls) = 1
    /\ pc = "done" => (Len(output) = 1 /\ stdout = <<output[1]>>)

Wit_C6 == ~Contains(argv, "-w") /\ pc = "RpcError" /\ Len(rpcCalls) = 1

\* C1: a GET served right after a successful POST (code c as post
\* read it, Run output o) renders c in the text area and the transform of o
\* in the store.
CE_C1 ==
  (H.method = "GET" /\ H.pc = "done" /\ prev # << >>) =>
    /\ TextAreaPart(H.written) = prev[1].code
    /\ IsReplaced(prev[1].output, StorePart(H.written))

\* C2: once a POST has succeeded, every later request observes
\* the has-result state.  posted holds only while the latest line a POST
\* stored is not empty, so that the has-result state of the claim has a
\* non-empty code string.
CE_C2 ==
  (posted /\ H.pc = "ready") => ~Idle(H)

\* C7: when Run fails in post, the submitted code (the line post read from
\* rho1) is already stored, the store string still has the value it had
\* when post began, no page is rendered (the response holds only the error
\* page) and ListPeers is not called.
Thm_C7 ==
  (H.pc = "error" /\ H.rpcs # << >> /\ H.rpcs[Len(H.rpcs)] = "Run") =>
    /\ IsStripped(H.arg[1], H.line[1])
    /\ H.rholang_code = H.line[1]
    /\ H.rspace_contents = NewHandler(H.method, H.arg).rspace_contents
    /\ NothingRendered(H)
    /\ H.written = <<ErrorPage("500", "Internal Server Error")>>
    /\ H.rpcs = <<"Run">>
    /\ H.error = "RpcError"

Wit_C7 == H.pc = "error" /\ H.rpcs = <<"Run">> /\ H.line # <<<< >>>> /\ posted

\* C8: a POST without the field rho1 is rejected before any stub call and
\* both strings keep the values they had when post began.
Thm_C8 ==
  (H.method = "POST" /\ H.arg = << >> /\ H.pc # "ready") =>
    /\ H.pc = "error"
    /\ H.error = "MissingArgumentError"
    /\ H.rpcs = << >>
    /\ NothingRendered(H)
    /\ H.written = <<ErrorPage("400", "Bad Request")>>
    /\ H.rholang_code = NewHandler(H.method, H.arg).rholang_code
    /\ H.rspace_contents = NewHandler(H.method, H.arg).rspace_contents

Wit_C8 == H.method = "POST" /\ H.arg = << >> /\ H.pc = "error" /\ posted

ListPeersFailed(h) ==
  h.pc = "error" /\ h.rpcs # << >> /\ h.rpcs[Len(h.rpcs)] = "ListPeers"

\* C9: when ListPeers fails in get (also the get that ends a post), nothing
\* is rendered for the request: the response holds no piece of the template
\* and no peer item, only the error page that surfaces the failure.
Thm_C9 ==
  ListPeersFailed(H) =>
    /\ NothingRendered(H)
    /\ H.written = <<ErrorPage("500", "Internal Server Error")>>
    /\ H.error = "RpcError"

Wit_C9 == ListPeersFailed(H) /\ H.method = "POST"

\* C10: under every interleaving of requests, the page of a successful POST
\* holds that POST's own code (the line it read from rho1) and the
\* transform of its own Run output.
Thm_C10 ==
  \A s \in Slots :
    (handlers[s].method = "POST" /\ handlers[s].pc = "done") =>
      /\ IsStripped(handlers[s].arg[1], handlers[s].line[1])
      /\ TextAreaPart(handlers[s].written) = handlers[s].line[1]
      /\ IsReplaced(handlers[s].output[1], StorePart(handlers[s].written))

Wit_C10 ==
  \E s, t \in Slots :
    /\ s # t
    /\ handlers[s].method = "POST" /\ handlers[s].pc = "done" /\ handlers[s].raced
    /\ handlers[t].method = "POST" /\ handlers[t].output # << >>
    /\ handlers[t].line # << >> /\ handlers[t].line # handlers[s].line
    /\ handlers[t].output # handlers[s].output

====
